---- MODULE Spec2Model ----
(***************************************************************************)
(* Model of curtin/commands/install.py: cmd_install and the helpers it     *)
(* drives (WorkingDir, Stage.run, apply_kexec, apply_power_state).         *)
(* One install attempt is a sequential process; pc is its position in      *)
(* cmd_install.  External collaborators (child commands, umount, iscsi,    *)
(* zpool, rmtree, the log archive, the file copy) succeed or raise, chosen *)
(* nondeterministically where they are called.  The reporter and the       *)
(* writes to stdout are taken to return.                                   *)
(***************************************************************************)
EXTENDS Integers, Sequences, FiniteSets, TLC

\* ------------------------------------------------------------------ bounds
MaxStages == 2
MaxCmds == 2
MaxPools == 2
MaxCliSources == 1

\* the longest delay string of a power_state
MaxDelayLen == 3

\* the longest grub configuration, in lines
MaxGrubLines == 5

\* the most bytes a child writes
MaxBytes == 3

\* -------------------------------------------------------- value universes
StageNames == {"early", "late"}

\* command names are strings; a name is modelled as its sequence of code
\* points so that the order of sorted() can be computed: "a", "ab", "b"
CmdNames == {<<1>>, <<1, 2>>, <<2>>}

\* a command value is a falsy value (None, "", []) or something runnable
CmdValues == {"falsy", "argv"}

NoCmd == <<0, <<>>>>
NoExc == [type |-> "none", origin |-> "none", cmd |-> NoCmd, rc |-> 0]

Exc(t, o) == [type |-> t, origin |-> o, cmd |-> NoCmd, rc |-> 0]

\* an externally visible step: what, for which command or pool, and whether
\* the collaborator returned (ok) or raised
Ev(e) == [ev |-> e, cmd |-> NoCmd, n |-> 0, ok |-> TRUE]

EvCmd(e, c, o) == [ev |-> e, cmd |-> c, n |-> 0, ok |-> o]

EvOk(e, o) == [ev |-> e, cmd |-> NoCmd, n |-> 0, ok |-> o]

EvPool(e, k, o) == [ev |-> e, cmd |-> NoCmd, n |-> k, ok |-> o]

\* ----------------------------------------------------------- pure helpers
RECURSIVE SeqsUpTo(_, _)
SeqsUpTo(S, n) ==
    IF n = 0 THEN {<<>>}
    ELSE LET shorter == SeqsUpTo(S, n - 1)
         IN shorter \cup {Append(s, x) : s \in shorter, x \in S}

Min(a, b) == IF a < b THEN a ELSE b

\* Python's str "<": first differing code point decides, a proper prefix
\* is smaller
LexLess(a, b) ==
    \/ \E i \in 1..Min(Len(a), Len(b)) :
          /\ \A j \in 1..(i - 1) : a[j] = b[j]
          /\ a[i] < b[i]
    \/ /\ Len(a) < Len(b)
       /\ \A j \in 1..Len(a) : a[j] = b[j]

\* sorted() with the comparison turned around
RECURSIVE SortedKeys_Descending(_)
SortedKeys_Descending(S) ==
    IF S = {} THEN <<>>
    ELSE LET m == CHOOSE x \in S : \A y \in S \ {x} : LexLess(y, x)
         IN <<m>> \o SortedKeys_Descending(S \ {m})

\* sorted(self.commands.keys())
RECURSIVE SortedKeys(_)
SortedKeys(S) ==
    IF S = {} THEN <<>>
    ELSE LET m == CHOOSE x \in S : \A y \in S \ {x} : LexLess(x, y)
         IN <<m>> \o SortedKeys(S \ {m})

\* cfg['sources']["%02d_cmdline" % len(cfg['sources'])] = src, per source
RECURSIVE AppendSources(_, _)
AppendSources(srcs, cli) ==
    IF cli = <<>> THEN srcs
    ELSE LET key == <<"cmdline", Cardinality(DOMAIN srcs)>>
             added == [k \in (DOMAIN srcs) \cup {key} |->
                          IF k = key THEN Head(cli) ELSE srcs[k]]
         IN AppendSources(added, Tail(cli))

\* util.get_dd_images(cfg.get('sources', {})): the disk-image sources
DDImages(srcs) == {k \in DOMAIN srcs : srcs[k] = "dd"}

EmptyMap == [k \in {} |-> "falsy"]

\* ------------------------------------------------------ proxy settings
\* a key that the dictionary does not hold
Absent == "<absent>"

\* a Python dict is a function from its keys; a value that is not a dict
\* is kept apart by its kind: "dict", "other", or "absent" for no value
EmptyDict == [k \in {} |-> ""]

DictValue(m) == [kind |-> "dict", map |-> m]

NoValue == [kind |-> "absent", map |-> EmptyDict]

NotADict == [kind |-> "other", map |-> EmptyDict]

\* line 377: isinstance(cfg.get('proxy', {}), dict)
ProxyIsDict(c) == c.proxy.kind # "other"

\* line 382: "if hp"
Truthy(v) == v # ""

\* dict.get(k, d)
DictGet(m, k, d) == IF k \in DOMAIN m THEN m[k] ELSE d

\* m[k] = v
DictSet(m, k, v) == [x \in (DOMAIN m) \cup {k} |-> IF x = k THEN v ELSE m[x]]

\* the legacy value is copied whatever proxy/http_proxy holds
MigratedProxy_Overwrite(proxy, hp) ==
    IF hp # Absent /\ Truthy(hp) THEN DictSet(proxy, "http_proxy", hp)
    ELSE proxy

\* lines 380-389: proxy after the legacy http_proxy hp was looked at
MigratedProxy(proxy, hp) ==
    IF hp # Absent /\ Truthy(hp) /\ DictGet(proxy, "http_proxy", hp) = hp
    THEN DictSet(proxy, "http_proxy", hp)
    ELSE proxy

\* migrate_proxy_settings (374-392) for a cfg whose proxy is a dict or absent
migrate_proxy_settings(c) ==
    [c EXCEPT !.http_proxy = Absent,
              !.proxy = DictValue(MigratedProxy(c.proxy.map, c.http_proxy))]

\* lines 412-414: the proxy variables that go into os.environ
ProxyKeys == {"http_proxy", "https_proxy", "no_proxy"}

ExportedProxy(c) ==
    [k \in (DOMAIN c.proxy.map) \cap ProxyKeys |-> c.proxy.map[k]]

\* ---------------------------------------------------------- configurations
\* CONFIG_BUILTIN merged with nothing but one source and small command maps
CommandMaps ==
    UNION {[K -> CmdValues] : K \in {X \in SUBSET CmdNames : Cardinality(X) <= MaxCmds}}

DefaultOptions ==
    [sources |-> [k \in {<<"user", 0>>} |-> "tgz"],
     error_tarfile |-> TRUE,
     save_install_log |-> TRUE,
     unmount |-> "",
     target |-> "default",
     iscsi |-> FALSE,
     zpools |-> 0,
     power_state |-> "none",
     kexec |-> "none",
     http_proxy |-> Absent,
     proxy |-> NoValue]

WithStages(opt, st, cm) ==
    [stages |-> st, commands |-> cm,
     sources |-> opt.sources, error_tarfile |-> opt.error_tarfile,
     save_install_log |-> opt.save_install_log, unmount |-> opt.unmount,
     target |-> opt.target, iscsi |-> opt.iscsi, zpools |-> opt.zpools,
     power_state |-> opt.power_state, kexec |-> opt.kexec,
     http_proxy |-> opt.http_proxy, proxy |-> opt.proxy]

OneCmd == [k \in {<<1>>} |-> "argv"]

\* every stage list and command maps, the other options as built in
StageConfigs ==
    {WithStages(DefaultOptions, st, [s \in StageNames |->
                    IF s = "early" THEN ce ELSE cl]) :
        st \in SeqsUpTo(StageNames, MaxStages),
        ce \in CommandMaps,
        cl \in {EmptyMap, OneCmd, [k \in {<<1, 2>>, <<2>>} |->
                                      IF k = <<2>> THEN "argv" ELSE "falsy"]}}

\* every combination of the install options, one stage with one command
OptionConfigs ==
    {WithStages([sources |-> [k \in {<<"user", 0>>} |-> "tgz"],
                 error_tarfile |-> et, save_install_log |-> sl,
                 unmount |-> um, target |-> tg, iscsi |-> isc,
                 zpools |-> zp, power_state |-> ps, kexec |-> kx,
                 http_proxy |-> Absent, proxy |-> NoValue],
                <<"early">>, [s \in StageNames |-> OneCmd]) :
        et \in BOOLEAN, sl \in BOOLEAN, um \in {"", "disabled"},
        tg \in {"default", "custom"}, isc \in BOOLEAN, zp \in 0..MaxPools,
        ps \in {"none", "valid", "badmode"}, kx \in {"none", "on"}}

\* the source mappings: none, one, two disk images, a cmdline-style key
SourceConfigs ==
    {[WithStages(DefaultOptions, <<"early">>, [s \in StageNames |-> OneCmd])
        EXCEPT !.sources = src] :
        src \in {[k \in {} |-> "tgz"],
                 [k \in {<<"user", 0>>} |-> "dd"],
                 [k \in {<<"user", 0>>, <<"user", 1>>} |-> "dd"],
                 [k \in {<<"cmdline", 1>>} |-> "tgz"]}}

\* kexec or power_state of the wrong shape: a value that is no mapping, a
\* power_state without a valid mode
MalformedConfigs ==
    {[WithStages(DefaultOptions, <<"early">>, [s \in StageNames |-> OneCmd])
        EXCEPT !.kexec = kx, !.power_state = ps] :
        kx \in {"none", "on", "notdict"},
        ps \in {"none", "notdict", "badmode"}}

\* legacy and new proxy settings, alone, together, and of the wrong shape
ProxyConfigs ==
    {[WithStages(DefaultOptions, <<"early">>, [s \in StageNames |-> OneCmd])
        EXCEPT !.http_proxy = hp, !.proxy = px] :
        hp \in {Absent, "x"},
        px \in {NoValue, NotADict,
                DictValue([k \in {"http_proxy"} |-> "y"]),
                DictValue([k \in {"https_proxy", "no_proxy"} |-> "x"])}}

\* an empty source mapping together with proxy settings
NoSourceConfigs ==
    {[c EXCEPT !.sources = [k \in {} |-> "tgz"]] : c \in ProxyConfigs}

\* the configurations tried with a failing install-log file system
LogFaultConfigs ==
    {WithStages(DefaultOptions, st, [s \in StageNames |-> OneCmd]) :
        st \in {<<"early">>, <<"early", "late">>}}

Configs ==
    StageConfigs \cup OptionConfigs \cup SourceConfigs \cup MalformedConfigs
        \cup ProxyConfigs \cup NoSourceConfigs

CliSources == SeqsUpTo({"tgz", "dd"}, MaxCliSources)

\* ------------------------------------------------------------------- state
VARIABLES
    pc,            \* position of the attempt in cmd_install
    cfg,           \* the merged configuration (cfg)
    args_source,   \* args.source
    workingd,      \* workingd is not None
    top_exists,    \* the mkdtemp() root of this attempt is on disk
    target_mounted,\* something is mounted under the target
    exc,           \* exception in flight inside try/except/finally
    result,        \* "none", "exit0" or "raised"
    raised,        \* the exception that left cmd_install
    stage_i,       \* index into cfg['stages'] of the running stage
    pending,       \* rest of sorted(self.commands.keys()) of the stage
    children,      \* stage children spawned and not yet reaped
    power_child,   \* forked power-state child: "none", "spawned", "exited"
    pool_i,        \* pools of the storage config exported so far
    install_log,   \* content of the install log file
    target_log,    \* the copy of the install log inside the target
    events,        \* history of the externally visible steps
    environ,       \* proxy variables exported into os.environ
    reporter_loaded, \* load_reporter(cfg) has been called
    log_faulty,    \* the file system of the install log is failing
    stage_log,     \* Stage.install_log of the running stage: "open", "none"
    state_files,   \* the files that exist in the state directory
    config_snapshot, \* what json.dump wrote into state/config
    fn,            \* the helper under study: "none" in an install attempt
    fn_in,         \* its argument
    fn_out,        \* its result
    rd_pc,         \* the read loop of Stage.run: position
    rd_data,       \* the read loop: what read(1) returned
    rd_output,     \* the read loop: output
    rd_console,    \* bytes written to stdout
    rd_log,        \* bytes written to the stage's install log
    rd_raised,     \* the ProcessExecutionError of the loop, if any
    ch_state,      \* the child: "running", "closed", "exited"
    ch_todo,       \* bytes the child still wants to write
    ch_written,    \* bytes the child wrote
    ch_rc,         \* the child's exit status
    pipe           \* bytes written and not yet read

installvars == <<pc, cfg, args_source, workingd, top_exists, target_mounted,
                 exc, result, raised, stage_i, pending, children,
                 power_child, pool_i, install_log, target_log, events,
                 environ, reporter_loaded, log_faulty, stage_log,
                 state_files, config_snapshot>>

fnvars == <<fn, fn_in, fn_out>>

readvars == <<rd_pc, rd_data, rd_output, rd_console, rd_log, rd_raised,
              ch_state, ch_todo, ch_written, ch_rc, pipe>>

vars == <<installvars, fnvars, readvars>>

\* a line of the install log: what it is and, for captured output, whose
LogLine(k) == <<k, NoCmd>>

OutputOf(c) == <<"OUTPUT", c>>

\* no such file
NoLog == <<LogLine("absent")>>

\* what an earlier installation left in the install log
PreviousLog == <<LogLine("PREVIOUS")>>

NoSnapshot == [absent |-> TRUE]

\* the helpers and the read loop are not running in an install attempt
FnIdle ==
    /\ fn = "none"
    /\ fn_in = <<>>
    /\ fn_out = <<>>

ReadIdle ==
    /\ rd_pc = "idle"
    /\ rd_data = <<>>
    /\ rd_output = <<>>
    /\ rd_console = <<>>
    /\ rd_log = <<>>
    /\ rd_raised = NoExc
    /\ ch_state = "none"
    /\ ch_todo = <<>>
    /\ ch_written = <<>>
    /\ ch_rc = 0
    /\ pipe = <<>>

Init ==
    /\ pc = "bootstrap"
    /\ \/ /\ cfg \in Configs
          /\ args_source = <<>>
          /\ log_faulty = FALSE
          /\ install_log = PreviousLog
       \/ /\ cfg \in SourceConfigs
          /\ args_source \in CliSources
          /\ log_faulty = FALSE
          /\ install_log = PreviousLog
       \/ /\ cfg \in LogFaultConfigs
          /\ args_source = <<>>
          /\ log_faulty = TRUE
          /\ install_log \in {NoLog, PreviousLog}
    /\ workingd = FALSE
    /\ top_exists = FALSE
    /\ target_mounted = FALSE
    /\ exc = NoExc
    /\ result = "none"
    /\ raised = NoExc
    /\ stage_i = 0
    /\ pending = <<>>
    /\ children = {}
    /\ power_child = "none"
    /\ pool_i = 0
    /\ target_log = NoLog
    /\ events = <<>>
    /\ environ = EmptyDict
    /\ reporter_loaded = FALSE
    /\ stage_log = "none"
    /\ state_files = {}
    /\ config_snapshot = NoSnapshot
    /\ FnIdle
    /\ ReadIdle

\* ---------------------------------------------------------- control flow
\* no except clause: the exception goes straight to the finally block
RaiseInTry_SkipHandler(e) ==
    /\ exc' = e
    /\ pc' = "finally"

\* an exception raised inside the try block (lines 442-471) is caught by
\* "except Exception as e" at line 472
RaiseInTry(e) ==
    /\ exc' = e
    /\ pc' = "except"

\* the exception is dropped and control goes on after the finally block
RaiseOut_Swallow(e) ==
    /\ pc' = "power_state"
    /\ UNCHANGED <<result, raised>>

\* an exception raised inside the finally block, or after it, leaves
\* cmd_install at once: the rest of the block is not executed
RaiseOut(e) ==
    /\ result' = "raised"
    /\ raised' = e
    /\ pc' = "done"

Log(e) == events' = Append(events, e)

\* --------------------------------------------------------------- actions
\* the source mapping is not looked at
NoSources_Never(srcs) == FALSE

\* line 408: "if not len(cfg.get('sources', []))"
NoSources(srcs) == Cardinality(DOMAIN srcs) = 0

\* lines 398-432: merge the configuration, append the CLI sources, refuse
\* an empty source mapping, migrate and export the proxy settings
Bootstrap ==
    /\ pc = "bootstrap"
    /\ LET srcs == AppendSources(cfg.sources, args_source)
       IN IF NoSources(srcs)
          THEN /\ RaiseOut(Exc("BadUsage", "bootstrap"))
               /\ UNCHANGED <<cfg, environ>>
          ELSE IF ~ProxyIsDict(cfg)
          THEN /\ RaiseOut(Exc("ValueError", "migrate_proxy_settings"))
               /\ cfg' = [cfg EXCEPT !.sources = srcs]
               /\ UNCHANGED environ
          ELSE /\ cfg' = migrate_proxy_settings([cfg EXCEPT !.sources = srcs])
               /\ environ' = ExportedProxy(cfg')
               /\ pc' = "start"
               /\ UNCHANGED <<result, raised>>
    /\ UNCHANGED <<args_source, workingd, top_exists, target_mounted, exc,
                   stage_i, pending, children, power_child, pool_i,
                   install_log, target_log, events>>
    /\ UNCHANGED <<reporter_loaded, log_faulty, stage_log, state_files,
                   config_snapshot>>
    /\ UNCHANGED <<fnvars, readvars>>

\* what one operation on the install log's file system can do
LogOutcomes == IF log_faulty THEN BOOLEAN ELSE {TRUE}

\* the line replaces what the file held
AppendLine_Truncate(log, line) == <<line>>

\* open(logfile, 'a') and write: the file is created when it is missing
AppendLine(log, line) ==
    IF log = NoLog THEN <<line>> ELSE Append(log, line)

\* lines 435-441: clear the install log, load the reporter, start banner.
\* In clear_install_log (63-69) ensure_dir at line 65 is outside the try;
\* the truncating open is inside it, as is the append in writeline (101-109)
StartInstall ==
    /\ pc = "start"
    /\ \E dir_ok \in LogOutcomes, clear_ok \in LogOutcomes,
          write_ok \in LogOutcomes :
          IF ~dir_ok
          THEN /\ RaiseOut(Exc("OSError", "clear_install_log"))
               /\ Log(EvOk("ensure_dir", FALSE))
               /\ UNCHANGED <<install_log, reporter_loaded>>
          ELSE LET cleared == IF clear_ok THEN <<>> ELSE install_log
               IN /\ install_log' =
                        IF write_ok
                        THEN AppendLine(cleared, LogLine("START"))
                        ELSE cleared
                  /\ reporter_loaded' = TRUE
                  /\ events' = events
                        \o (IF clear_ok THEN <<>>
                            ELSE <<EvOk("clear_install_log", FALSE)>>)
                        \o (IF write_ok THEN <<>>
                            ELSE <<EvOk("writeline", FALSE)>>)
                        \o <<Ev("start_banner")>>
                  /\ pc' = "workingdir"
                  /\ UNCHANGED <<result, raised>>
    /\ UNCHANGED <<cfg, args_source, workingd, top_exists, target_mounted,
                   exc, stage_i, pending, children,
                   power_child, pool_i, target_log>>
    /\ UNCHANGED <<environ, log_faulty, stage_log,
                   state_files, config_snapshot>>
    /\ UNCHANGED <<fnvars, readvars>>

\* what WorkingDir.__init__ can find at install/target
TargetStates(c) ==
    IF c.target = "custom" THEN {"empty", "nonempty", "uncreatable"}
    ELSE {"empty"}

\* lines 114-117: the directories made before the target is looked at
WorkDirs == {"state", "scratch"}

\* line 143: the files that are touched
TouchedFiles == {"config", "fstab", "network_config", "network_state"}

\* line 443 and WorkingDir.__init__ (113-155): mkdtemp() comes first, the
\* target directory is checked after it, then the configuration is dumped
\* to state/config and the state files are touched
CreateWorkingDir ==
    /\ pc = "workingdir"
    /\ top_exists' = TRUE
    /\ \E fs \in TargetStates(cfg) :
          IF fs = "empty"
          THEN /\ workingd' = TRUE
               /\ state_files' = WorkDirs \cup {"target"} \cup TouchedFiles
               /\ config_snapshot' = cfg
               /\ pc' = "dd_images"
               /\ Log(EvOk("WorkingDir", TRUE))
               /\ UNCHANGED exc
          ELSE /\ RaiseInTry(Exc("ValueError", "WorkingDir"))
               /\ state_files' = WorkDirs \cup
                     (IF fs = "nonempty" THEN {"target"} ELSE {})
               /\ Log(EvOk("WorkingDir", FALSE))
               /\ UNCHANGED <<workingd, config_snapshot>>
    /\ UNCHANGED <<cfg, args_source, target_mounted, result, raised,
                   stage_i, pending, children, power_child, pool_i,
                   install_log, target_log>>
    /\ UNCHANGED <<environ, reporter_loaded, log_faulty, stage_log>>
    /\ UNCHANGED <<fnvars, readvars>>

\* lines 444-450: at most one disk image among the sources
CheckDDImages ==
    /\ pc = "dd_images"
    /\ IF Cardinality(DDImages(cfg.sources)) > 1
       THEN /\ RaiseInTry(Exc("ValueError", "dd_images"))
            /\ UNCHANGED stage_i
       ELSE /\ stage_i' = 1
            /\ pc' = "stage"
            /\ UNCHANGED exc
    /\ UNCHANGED <<cfg, args_source, workingd, top_exists, target_mounted,
                   result, raised, pending, children, power_child, pool_i,
                   install_log, target_log, events>>
    /\ UNCHANGED <<environ, reporter_loaded, log_faulty, stage_log,
                   state_files, config_snapshot>>
    /\ UNCHANGED <<fnvars, readvars>>

\* cfg.get('%s_commands' % name, {})
StageCommands(c, i) == c.commands[c.stages[i]]

\* lines 452-463 and 212: the next name of cfg['stages'], its Stage, and
\* the order in which run() will take its commands.  The Stage opens the
\* install log for appending (187-194) and goes without it on IOError
StageBegin ==
    /\ pc = "stage"
    /\ stage_i <= Len(cfg.stages)
    /\ pending' = SortedKeys(DOMAIN StageCommands(cfg, stage_i))
    /\ \E open_ok \in LogOutcomes :
          IF open_ok
          THEN /\ stage_log' = "open"
               /\ install_log' = IF install_log = NoLog THEN <<>>
                                 ELSE install_log
               /\ UNCHANGED events
          ELSE /\ stage_log' = "none"
               /\ Log(EvOk("open_install_log", FALSE))
               /\ UNCHANGED install_log
    /\ pc' = "cmd"
    /\ UNCHANGED <<cfg, args_source, workingd, top_exists, target_mounted,
                   exc, result, raised, stage_i, children, power_child,
                   pool_i, target_log>>
    /\ UNCHANGED <<environ, reporter_loaded, log_faulty,
                   state_files, config_snapshot>>
    /\ UNCHANGED <<fnvars, readvars>>

\* line 212 exhausted: run() returns and the stage loop advances
StageEnd ==
    /\ pc = "cmd"
    /\ pending = <<>>
    /\ stage_i' = stage_i + 1
    /\ pc' = "stage"
    /\ UNCHANGED <<cfg, args_source, workingd, top_exists, target_mounted,
                   exc, result, raised, pending, children, power_child,
                   pool_i, install_log, target_log, events>>
    /\ UNCHANGED <<environ, reporter_loaded, log_faulty, stage_log,
                   state_files, config_snapshot>>
    /\ UNCHANGED <<fnvars, readvars>>

\* line 214: "if not cmd"
IsSkipped(cmd) == cmd = "falsy"

\* lines 213-215: a falsy command is passed over
SkipCommand ==
    /\ pc = "cmd"
    /\ pending # <<>>
    /\ IsSkipped(StageCommands(cfg, stage_i)[Head(pending)])
    /\ pending' = Tail(pending)
    /\ UNCHANGED <<pc, cfg, args_source, workingd, top_exists,
                   target_mounted, exc, result, raised, stage_i, children,
                   power_child, pool_i, install_log, target_log, events>>
    /\ UNCHANGED <<environ, reporter_loaded, log_faulty, stage_log,
                   state_files, config_snapshot>>
    /\ UNCHANGED <<fnvars, readvars>>

\* lines 216-233: subprocess.Popen of the command; OSError aborts the stage
LaunchCommand ==
    /\ pc = "cmd"
    /\ pending # <<>>
    /\ ~IsSkipped(StageCommands(cfg, stage_i)[Head(pending)])
    /\ LET c == <<stage_i, Head(pending)>>
       IN \E started \in BOOLEAN :
             /\ Log(EvCmd("popen", c, started))
             /\ IF started
                THEN /\ children' = children \cup {c}
                     /\ pc' = "read"
                     /\ UNCHANGED exc
                ELSE /\ RaiseInTry([type |-> "ProcessExecutionError",
                                    origin |-> "popen", cmd |-> c, rc |-> 0])
                     /\ UNCHANGED children
    /\ pending' = Tail(pending)
    /\ UNCHANGED <<cfg, args_source, workingd, top_exists, target_mounted,
                   result, raised, stage_i, power_child, pool_i,
                   install_log, target_log>>
    /\ UNCHANGED <<environ, reporter_loaded, log_faulty, stage_log,
                   state_files, config_snapshot>>
    /\ UNCHANGED <<fnvars, readvars>>

\* the return code is not looked at
CommandFailed_Never(rc) == FALSE

\* line 244: "if rc != 0"
CommandFailed(rc) == rc # 0

\* lines 235-248: read the child's output until it has exited, forward it
\* to the install log, raise on a non-zero return code.  A command that
\* returned 0 is taken to leave something mounted under the target.
\* Stage.write (204-209) does not catch what the write to an open install
\* log raises: the error leaves run() with the child not waited for
WaitCommand ==
    /\ pc = "read"
    /\ \E c \in children, rc \in {0, 1},
          write_ok \in (IF stage_log = "open" THEN LogOutcomes ELSE {TRUE}) :
          IF ~write_ok
          THEN /\ Log(EvCmd("Stage.write", c, FALSE))
               /\ RaiseInTry([type |-> "IOError", origin |-> "Stage.write",
                               cmd |-> c, rc |-> 0])
               /\ UNCHANGED <<children, install_log, target_mounted>>
          ELSE /\ children' = children \ {c}
               /\ install_log' = IF stage_log = "open"
                                 THEN Append(install_log, OutputOf(c))
                                 ELSE install_log
               /\ Log([ev |-> "exit", cmd |-> c, n |-> rc, ok |-> TRUE])
               /\ IF CommandFailed(rc)
                  THEN /\ RaiseInTry([type |-> "ProcessExecutionError",
                                      origin |-> "stage", cmd |-> c,
                                      rc |-> rc])
                       /\ UNCHANGED target_mounted
                  ELSE /\ pc' = "cmd"
                       /\ target_mounted' = TRUE
                       /\ UNCHANGED exc
    /\ UNCHANGED <<cfg, args_source, workingd, top_exists, result, raised,
                   stage_i, pending, power_child, pool_i, target_log>>
    /\ UNCHANGED <<environ, reporter_loaded, log_faulty, stage_log,
                   state_files, config_snapshot>>
    /\ UNCHANGED <<fnvars, readvars>>

\* what apply_kexec can meet once kexec mode is "on" (lines 323-371)
KexecOutcomes == {"nogrub", "nomenuentry", "nokernel", "subp_failed", "loaded"}

\* the override is made whatever apply_kexec returned
KexecLoaded_Always(out) == TRUE

\* line 466: "if apply_kexec(...)": True only after "kexec -l" was run
KexecLoaded(out) == out = "loaded"

\* lines 466-468 and apply_kexec (308-371), after the last stage.  Line 317
\* calls kexec.get before line 320 tests isinstance(kexec, dict), so a
\* value that is no mapping ends in AttributeError
ApplyKexec ==
    /\ pc = "stage"
    /\ stage_i > Len(cfg.stages)
    /\ CASE cfg.kexec = "notdict" ->
              /\ Log(EvOk("apply_kexec", FALSE))
              /\ RaiseInTry(Exc("AttributeError", "kexec"))
              /\ UNCHANGED cfg
         [] cfg.kexec = "on" ->
              \E out \in KexecOutcomes :
                 /\ Log(EvOk("apply_kexec", out = "loaded"))
                 /\ CASE out = "nogrub" ->
                           /\ RaiseInTry(Exc("ValueError", "kexec"))
                           /\ UNCHANGED cfg
                      [] out = "subp_failed" ->
                           /\ RaiseInTry(Exc("ProcessExecutionError", "kexec"))
                           /\ UNCHANGED cfg
                      [] OTHER ->
                           /\ cfg' = IF KexecLoaded(out)
                                     THEN [cfg EXCEPT !.power_state = "kexec_reboot"]
                                     ELSE cfg
                           /\ pc' = "success"
                           /\ UNCHANGED exc
         [] OTHER ->
              /\ pc' = "success"
              /\ UNCHANGED <<cfg, exc, events>>
    /\ UNCHANGED <<args_source, workingd, top_exists, target_mounted,
                   result, raised, stage_i, pending, children, power_child,
                   pool_i, install_log, target_log>>
    /\ UNCHANGED <<environ, reporter_loaded, log_faulty, stage_log,
                   state_files, config_snapshot>>
    /\ UNCHANGED <<fnvars, readvars>>

\* lines 470-471: success banner and the reporter's success notification
ReportSuccess ==
    /\ pc = "success"
    /\ \E write_ok \in LogOutcomes :
          IF write_ok
          THEN /\ install_log' = AppendLine(install_log, LogLine("PASS"))
               /\ Log(Ev("report_success"))
          ELSE /\ events' = events \o <<EvOk("writeline", FALSE),
                                        Ev("report_success")>>
               /\ UNCHANGED install_log
    /\ pc' = "finally"
    /\ UNCHANGED <<cfg, args_source, workingd, top_exists, target_mounted,
                   exc, result, raised, stage_i, pending, children,
                   power_child, pool_i, target_log>>
    /\ UNCHANGED <<environ, reporter_loaded, log_faulty, stage_log,
                   state_files, config_snapshot>>
    /\ UNCHANGED <<fnvars, readvars>>

\* lines 472-476: the failure line and the reporter's failure notification
HandleFailure ==
    /\ pc = "except"
    /\ \E write_ok \in LogOutcomes :
          IF write_ok
          THEN /\ install_log' = AppendLine(install_log, LogLine("FAIL"))
               /\ Log(Ev("report_failure"))
          ELSE /\ events' = events \o <<EvOk("writeline", FALSE),
                                        Ev("report_failure")>>
               /\ UNCHANGED install_log
    /\ pc' = "tarfile"
    /\ UNCHANGED <<cfg, args_source, workingd, top_exists, target_mounted,
                   exc, result, raised, stage_i, pending, children,
                   power_child, pool_i, target_log>>
    /\ UNCHANGED <<environ, reporter_loaded, log_faulty, stage_log,
                   state_files, config_snapshot>>
    /\ UNCHANGED <<fnvars, readvars>>

\* the archive is made whether or not a path is configured
ArchiveWanted_Always(c) == TRUE

\* line 477: "if error_tarfile"
ArchiveWanted(c) == c.error_tarfile

\* lines 477-479: the error archive, then "raise e"; an exception of the
\* collaborator takes the place of e
CreateLogTarfile ==
    /\ pc = "tarfile"
    /\ IF ArchiveWanted(cfg)
       THEN \E ok \in BOOLEAN :
               /\ Log(EvOk("create_log_tarfile", ok))
               /\ exc' = IF ok THEN exc
                         ELSE Exc("Exception", "create_log_tarfile")
       ELSE UNCHANGED <<exc, events>>
    /\ pc' = "finally"
    /\ UNCHANGED <<cfg, args_source, workingd, top_exists, target_mounted,
                   result, raised, stage_i, pending, children, power_child,
                   pool_i, install_log, target_log>>
    /\ UNCHANGED <<environ, reporter_loaded, log_faulty, stage_log,
                   state_files, config_snapshot>>
    /\ UNCHANGED <<fnvars, readvars>>


\* the install log is never copied
CopyWanted_Never(c, w) == FALSE

\* line 482: "if log_target_path and workingd"
CopyWanted(c, w) == c.save_install_log /\ w

\* lines 480-483: the finally block starts; the install log is copied into
\* the target.  copy_install_log (72-87) returns when there is no such
\* file and does not catch what write_file or load_file raise
CopyInstallLog ==
    /\ pc = "finally"
    /\ IF CopyWanted(cfg, workingd) /\ install_log # NoLog
       THEN \E ok \in BOOLEAN :
               /\ events' = events \o <<Ev("cleanup_begin"),
                                        EvOk("copy_install_log", ok)>>
               /\ IF ok
                  THEN /\ target_log' = install_log
                       /\ pc' = "unmount"
                       /\ UNCHANGED <<result, raised>>
                  ELSE /\ RaiseOut(Exc("IOError", "copy_install_log"))
                       /\ UNCHANGED target_log
       ELSE /\ Log(Ev("cleanup_begin"))
            /\ pc' = "unmount"
            /\ UNCHANGED <<target_log, result, raised>>
    /\ UNCHANGED <<cfg, args_source, workingd, top_exists, target_mounted,
                   exc, stage_i, pending, children, power_child, pool_i,
                   install_log>>
    /\ UNCHANGED <<environ, reporter_loaded, log_faulty, stage_log,
                   state_files, config_snapshot>>
    /\ UNCHANGED <<fnvars, readvars>>

\* the unmount option is not honoured
UnmountDisabled_Never(c) == FALSE

\* line 485: instcfg.get('unmount', "") == "disabled"
UnmountDisabled(c) == c.unmount = "disabled"

\* lines 485-489: skip the teardown, or unmount the target recursively
Unmount ==
    /\ pc = "unmount"
    /\ IF UnmountDisabled(cfg)
       THEN /\ Log(Ev("skip_unmount"))
            /\ pc' = "end_finally"
            /\ UNCHANGED <<target_mounted, result, raised>>
       ELSE IF workingd
            THEN \E ok \in BOOLEAN :
                    /\ Log(EvOk("do_umount", ok))
                    /\ IF ok
                       THEN /\ target_mounted' = FALSE
                            /\ pc' = "iscsi"
                            /\ UNCHANGED <<result, raised>>
                       ELSE /\ RaiseOut(Exc("ProcessExecutionError",
                                            "do_umount"))
                            /\ UNCHANGED target_mounted
            ELSE /\ pc' = "end_finally"
                 /\ UNCHANGED <<target_mounted, result, raised, events>>
    /\ UNCHANGED <<cfg, args_source, workingd, top_exists, exc, stage_i,
                   pending, children, power_child, pool_i, install_log,
                   target_log>>
    /\ UNCHANGED <<environ, reporter_loaded, log_faulty, stage_log,
                   state_files, config_snapshot>>
    /\ UNCHANGED <<fnvars, readvars>>

\* the service is restarted whatever the storage configuration holds
HasIscsiDisks_Always(c) == TRUE

\* line 505: iscsi.get_iscsi_disks_from_config(cfg)
HasIscsiDisks(c) == c.iscsi

\* lines 505-506: restart the open-iscsi service if there are iscsi disks
RestartIscsi ==
    /\ pc = "iscsi"
    /\ IF HasIscsiDisks(cfg)
       THEN \E ok \in BOOLEAN :
               /\ Log(EvOk("restart_iscsi_service", ok))
               /\ IF ok
                  THEN /\ pc' = "zpool"
                       /\ UNCHANGED <<result, raised>>
                  ELSE RaiseOut(Exc("ProcessExecutionError",
                                    "restart_iscsi_service"))
       ELSE /\ pc' = "zpool"
            /\ UNCHANGED <<result, raised, events>>
    /\ pool_i' = 0
    /\ UNCHANGED <<cfg, args_source, workingd, top_exists, target_mounted,
                   exc, stage_i, pending, children, power_child,
                   install_log, target_log>>
    /\ UNCHANGED <<environ, reporter_loaded, log_faulty, stage_log,
                   state_files, config_snapshot>>
    /\ UNCHANGED <<fnvars, readvars>>

\* lines 508-510: one zpool of zfs.get_zpool_from_config(cfg) is exported
ZpoolExport ==
    /\ pc = "zpool"
    /\ pool_i < cfg.zpools
    /\ \E ok \in BOOLEAN :
          /\ Log(EvPool("zpool_export", pool_i + 1, ok))
          /\ IF ok
             THEN /\ pool_i' = pool_i + 1
                  /\ UNCHANGED <<pc, result, raised>>
             ELSE /\ RaiseOut(Exc("ProcessExecutionError", "zpool_export"))
                  /\ UNCHANGED pool_i
    /\ UNCHANGED <<cfg, args_source, workingd, top_exists, target_mounted,
                   exc, stage_i, pending, children, power_child,
                   install_log, target_log>>
    /\ UNCHANGED <<environ, reporter_loaded, log_faulty, stage_log,
                   state_files, config_snapshot>>
    /\ UNCHANGED <<fnvars, readvars>>

\* line 512: shutil.rmtree(workingd.top), after the last pool
RemoveTop ==
    /\ pc = "zpool"
    /\ pool_i >= cfg.zpools
    /\ \E ok \in BOOLEAN :
          /\ Log(EvOk("rmtree", ok))
          /\ IF ok
             THEN /\ top_exists' = FALSE
                  /\ state_files' = IF cfg.target = "custom"
                                    THEN state_files \cap {"target"}
                                    ELSE {}
                  /\ pc' = "end_finally"
                  /\ UNCHANGED <<result, raised>>
             ELSE /\ RaiseOut(Exc("OSError", "rmtree"))
                  /\ UNCHANGED <<top_exists, state_files>>
    /\ UNCHANGED <<cfg, args_source, workingd, target_mounted, exc, stage_i,
                   pending, children, power_child, pool_i, install_log,
                   target_log>>
    /\ UNCHANGED <<environ, reporter_loaded, log_faulty, stage_log,
                   config_snapshot>>
    /\ UNCHANGED <<fnvars, readvars>>

\* the handler does not re-raise
Propagates_Never(e) == FALSE

\* the exception of "raise e" (line 479) is pending while finally runs
Propagates(e) == e # NoExc

\* end of the finally block: a pending exception leaves cmd_install,
\* otherwise control reaches line 514
EndFinally ==
    /\ pc = "end_finally"
    /\ Log(Ev("cleanup_end"))
    /\ IF Propagates(exc)
       THEN RaiseOut(exc)
       ELSE /\ pc' = "power_state"
            /\ UNCHANGED <<result, raised>>
    /\ UNCHANGED <<cfg, args_source, workingd, top_exists, target_mounted,
                   exc, stage_i, pending, children, power_child, pool_i,
                   install_log, target_log>>
    /\ UNCHANGED <<environ, reporter_loaded, log_faulty, stage_log,
                   state_files, config_snapshot>>
    /\ UNCHANGED <<fnvars, readvars>>

\* load_power_state (274-305): None gives no command, a bad mode raises
PowerCommand(ps) ==
    CASE ps = "none" -> "nocmd"
      [] ps \in {"valid", "kexec_reboot"} -> "shutdown"
      [] OTHER -> "TypeError"

\* line 514 and apply_power_state (251-271): fork the power command and
\* return without waiting for it
ApplyPowerState ==
    /\ pc = "power_state"
    /\ LET cmd == PowerCommand(cfg.power_state)
       IN CASE cmd = "nocmd" ->
                 /\ pc' = "exit"
                 /\ UNCHANGED <<power_child, result, raised, events>>
            [] cmd = "shutdown" ->
                 /\ power_child' = "spawned"
                 /\ Log(EvOk("apply_power_state", TRUE))
                 /\ pc' = "exit"
                 /\ UNCHANGED <<result, raised>>
            [] OTHER ->
                 /\ RaiseOut(Exc("TypeError", "load_power_state"))
                 /\ Log(EvOk("apply_power_state", FALSE))
                 /\ UNCHANGED power_child
    /\ UNCHANGED <<cfg, args_source, workingd, top_exists, target_mounted,
                   exc, stage_i, pending, children, pool_i, install_log,
                   target_log>>
    /\ UNCHANGED <<environ, reporter_loaded, log_faulty, stage_log,
                   state_files, config_snapshot>>
    /\ UNCHANGED <<fnvars, readvars>>

\* line 516: sys.exit(0)
Exit ==
    /\ pc = "exit"
    /\ result' = "exit0"
    /\ pc' = "done"
    /\ Log(Ev("exit0"))
    /\ UNCHANGED <<cfg, args_source, workingd, top_exists, target_mounted,
                   exc, raised, stage_i, pending, children, power_child,
                   pool_i, install_log, target_log>>
    /\ UNCHANGED <<environ, reporter_loaded, log_faulty, stage_log,
                   state_files, config_snapshot>>
    /\ UNCHANGED <<fnvars, readvars>>

\* lines 264-270: the forked child runs the power command and _exits, on
\* its own schedule
PowerChildRun ==
    /\ power_child = "spawned"
    /\ power_child' = "exited"
    /\ UNCHANGED <<pc, cfg, args_source, workingd, top_exists,
                   target_mounted, exc, result, raised, stage_i, pending,
                   children, pool_i, install_log, target_log, events>>
    /\ UNCHANGED <<environ, reporter_loaded, log_faulty, stage_log,
                   state_files, config_snapshot>>
    /\ UNCHANGED <<fnvars, readvars>>

Next ==
    \/ Bootstrap
    \/ StartInstall
    \/ CreateWorkingDir
    \/ CheckDDImages
    \/ StageBegin
    \/ StageEnd
    \/ SkipCommand
    \/ LaunchCommand
    \/ WaitCommand
    \/ ApplyKexec
    \/ ReportSuccess
    \/ HandleFailure
    \/ CreateLogTarfile
    \/ CopyInstallLog
    \/ Unmount
    \/ RestartIscsi
    \/ ZpoolExport
    \/ RemoveTop
    \/ EndFinally
    \/ ApplyPowerState
    \/ Exit
    \/ PowerChildRun

Spec == Init /\ [][Next]_vars


\* --------------------------------------------- the helpers taken alone
\* migrate_proxy_settings, load_power_state and the parsing of apply_kexec
\* are functions of their argument: each is called once on an argument
\* drawn from a bounded set, with no install attempt under way

\* the working variables of an install attempt that has not been started
InstallIdle ==
    /\ pc = "idle"
    /\ cfg = WithStages(DefaultOptions, <<>>, [s \in StageNames |-> EmptyMap])
    /\ args_source = <<>>
    /\ log_faulty = FALSE
    /\ install_log = PreviousLog
    /\ workingd = FALSE
    /\ top_exists = FALSE
    /\ target_mounted = FALSE
    /\ exc = NoExc
    /\ result = "none"
    /\ raised = NoExc
    /\ stage_i = 0
    /\ pending = <<>>
    /\ children = {}
    /\ power_child = "none"
    /\ pool_i = 0
    /\ target_log = NoLog
    /\ events = <<>>
    /\ environ = EmptyDict
    /\ reporter_loaded = FALSE
    /\ state_files = {}
    /\ config_snapshot = NoSnapshot

\* what a call gave: nothing yet, a value, or an exception
NotCalled == [done |-> FALSE, raised |-> "none", value |-> <<>>]

Returned(v) == [done |-> TRUE, raised |-> "none", value |-> v]

Raised(t) == [done |-> TRUE, raised |-> t, value |-> <<>>]

\* ---- migrate_proxy_settings
ProxyValues == {"", "x", "y"}

\* the proxy dictionaries: any of two keys, with any value
ProxyDicts ==
    UNION {[ks -> ProxyValues] : ks \in SUBSET {"http_proxy", "no_proxy"}}

MigrateInputs ==
    {[WithStages(DefaultOptions, <<>>, [s \in StageNames |-> EmptyMap])
        EXCEPT !.http_proxy = hp, !.proxy = px] :
        hp \in {Absent} \cup ProxyValues,
        px \in {NoValue, NotADict} \cup {DictValue(m) : m \in ProxyDicts}}

\* lines 374-392, with the ValueError of line 378
CallMigrateProxy ==
    /\ fn = "migrate_proxy_settings"
    /\ fn_out = NotCalled
    /\ fn_out' = IF ProxyIsDict(fn_in)
                 THEN Returned(migrate_proxy_settings(fn_in))
                 ELSE Raised("ValueError")
    /\ UNCHANGED <<fn, fn_in, installvars, readvars>>

\* ---- load_power_state
\* a delay is the string of its characters
Digits == {"0", "5"}

DelayChars == Digits \cup {"+", "x"}

Now == <<"n", "o", "w">>

Delays == SeqsUpTo(DelayChars, MaxDelayLen) \cup {Now}

\* line 282
opt_map == [m \in {"halt", "poweroff", "reboot"} |->
               CASE m = "halt" -> "-H"
                 [] m = "poweroff" -> "-P"
                 [] m = "reboot" -> "-r"]

\* power_state values: None, something that is no dict, and dicts with or
\* without mode, delay and message
PowerStates ==
    {[kind |-> "None"], [kind |-> "other"]} \cup
    [kind : {"dict"},
     mode : (DOMAIN opt_map) \cup {"restart", Absent},
     delay : Delays \cup {<<Absent>>},
     message : {Absent, "bye"}]

\* line 292: re.match(r"\+[0-9]+", delay) looks at the start of the string
StartsWithPlusDigits(d) ==
    /\ Len(d) >= 2
    /\ d[1] = "+"
    /\ d[2] \in Digits

\* lines 289-295: the delay token
DelayToken(d) ==
    IF d = <<Absent>> THEN <<"5">>
    ELSE IF d = Now THEN <<"0">>
    ELSE IF StartsWithPlusDigits(d) THEN Append(Tail(d), "m")
    ELSE d

\* lines 274-305: None, TypeError, or the command line
load_power_state(pstate) ==
    IF pstate.kind = "None" THEN Returned(<<>>)
    ELSE IF pstate.kind # "dict" THEN Raised("TypeError")
    ELSE IF pstate.mode \notin DOMAIN opt_map THEN Raised("TypeError")
    ELSE Returned(
           <<<<"sh">>, <<"-c">>, <<"shcmd">>, <<"curtin-poweroff">>,
             DelayToken(pstate.delay),
             <<"shutdown">>, <<opt_map[pstate.mode]>>, <<"now">>>>
           \o (IF pstate.message # Absent THEN <<<<pstate.message>>>>
               ELSE <<>>))

CallLoadPowerState ==
    /\ fn = "load_power_state"
    /\ fn_out = NotCalled
    /\ fn_out' = load_power_state(fn_in)
    /\ UNCHANGED <<fn, fn_in, installvars, readvars>>

\* ---- apply_kexec, from the grub configuration to the kernel to load
\* a line of grub.cfg: set default="n" (tail tells whether a word character
\* comes right after the closing quote), menuentry, linux and initrd (n
\* tells the file they name)
GrubLines ==
    {[kind |-> "default", n |-> 1, tail |-> FALSE],
     [kind |-> "default", n |-> 1, tail |-> TRUE],
     [kind |-> "default", n |-> 0, tail |-> TRUE],
     [kind |-> "menuentry", n |-> 0, tail |-> FALSE],
     [kind |-> "linux", n |-> 1, tail |-> FALSE],
     [kind |-> "linux", n |-> 2, tail |-> FALSE],
     [kind |-> "initrd", n |-> 1, tail |-> FALSE]}

GrubConfigs == SeqsUpTo(GrubLines, MaxGrubLines)

\* line 335: \bset default="[0-9]+"\b on " %s " % line: the last \b wants a
\* word character after the closing quote
MatchesSetDefault(line) == line.kind = "default" /\ line.tail

\* line 337
MatchesMenuentry(line) == line.kind = "menuentry"

\* lines 334-338: the last matching line sets default, 0 without one
RECURSIVE DefaultEntry(_)
DefaultEntry(lines) ==
    IF lines = <<>> THEN 0
    ELSE IF MatchesSetDefault(lines[Len(lines)]) THEN lines[Len(lines)].n
    ELSE DefaultEntry(SubSeq(lines, 1, Len(lines) - 1))

\* lines 337-338: the 1-based numbers of the menuentry lines, ascending
RECURSIVE menu_lines(_)
menu_lines(lines) ==
    IF lines = <<>> THEN <<>>
    ELSE LET before == menu_lines(SubSeq(lines, 1, Len(lines) - 1))
         IN IF MatchesMenuentry(lines[Len(lines)])
            THEN Append(before, Len(lines))
            ELSE before

\* lines 356-363: the file of the last line of the kind among the 0-based
\* lines[i], i in range(begin, end); 0 for none
RECURSIVE LastOfKind(_, _, _, _)
LastOfKind(lines, kind, begin, end) ==
    IF end <= begin THEN 0
    ELSE IF lines[(end - 1) + 1].kind = kind THEN lines[(end - 1) + 1].n
    ELSE LastOfKind(lines, kind, begin, end - 1)

\* lines 329-371 once grub.cfg is there: False without menuentry or kernel,
\* IndexError for a default beyond the entries, else kexec -l
ParseGrub(lines) ==
    LET default == DefaultEntry(lines)
        ml == menu_lines(lines)
    IN IF ml = <<>> THEN Returned([loaded |-> FALSE, kernel |-> 0,
                                   initrd |-> 0])
       ELSE IF default + 1 > Len(ml) THEN Raised("IndexError")
       ELSE LET begin == ml[default + 1]
                end == IF begin # ml[Len(ml)] THEN ml[default + 2] - 1
                       ELSE Len(lines)
                kernel == LastOfKind(lines, "linux", begin, end)
                initrd == LastOfKind(lines, "initrd", begin, end)
            IN IF kernel = 0
               THEN Returned([loaded |-> FALSE, kernel |-> 0, initrd |-> 0])
               ELSE Returned([loaded |-> TRUE, kernel |-> kernel,
                              initrd |-> initrd])

CallApplyKexec ==
    /\ fn = "apply_kexec"
    /\ fn_out = NotCalled
    /\ fn_out' = ParseGrub(fn_in)
    /\ UNCHANGED <<fn, fn_in, installvars, readvars>>

\* ---- the CLI sources of cmd_install (lines 401-403)
\* keys a configuration can give its sources, "NN_cmdline" among them
SourceKeys == {<<"user", 0>>, <<"cmdline", 1>>, <<"cmdline", 2>>}

SourceMaps == UNION {[ks -> {"tgz", "dd"}] : ks \in SUBSET SourceKeys}

AppendInputs == [sources : SourceMaps, cli : CliSources]

\* lines 401-403: each args.source goes in under "%02d_cmdline" % len
CallAppendSources ==
    /\ fn = "append_sources"
    /\ fn_out = NotCalled
    /\ fn_out' = Returned(AppendSources(fn_in.sources, fn_in.cli))
    /\ UNCHANGED <<fn, fn_in, installvars, readvars>>

InitFn ==
    /\ InstallIdle
    /\ stage_log = "none"
    /\ ReadIdle
    /\ fn_out = NotCalled
    /\ \/ fn = "migrate_proxy_settings" /\ fn_in \in MigrateInputs
       \/ fn = "load_power_state" /\ fn_in \in PowerStates
       \/ fn = "apply_kexec" /\ fn_in \in GrubConfigs
       \/ fn = "append_sources" /\ fn_in \in AppendInputs

NextFn ==
    \/ CallMigrateProxy
    \/ CallLoadPowerState
    \/ CallApplyKexec
    \/ CallAppendSources

SpecFn == InitFn /\ [][NextFn]_vars

\* ------------------------------------------- one command and its reader
\* Stage.run's loop (236-241) next to the child it reads from: the child
\* writes to the pipe, may close its end, and exits, while the runner reads
\* a byte, tests for the end, and hands the byte to Stage.write

Bytes == {"a", "b"}

\* the bytes in the runner's hands: read and not yet added to output
InHand == IF rd_pc \in {"check", "write", "log", "append"} THEN rd_data
          ELSE <<>>

\* the child writes the next byte to its stdout/stderr
ChildWrite ==
    /\ ch_state = "running"
    /\ ch_todo # <<>>
    /\ pipe' = Append(pipe, Head(ch_todo))
    /\ ch_written' = Append(ch_written, Head(ch_todo))
    /\ ch_todo' = Tail(ch_todo)
    /\ UNCHANGED <<rd_pc, rd_data, rd_output, rd_console, rd_log, rd_raised,
                   ch_state, ch_rc, installvars, fnvars>>

\* the child closes its end of the pipe and goes on running
ChildClose ==
    /\ ch_state = "running"
    /\ ch_state' = "closed"
    /\ UNCHANGED <<rd_pc, rd_data, rd_output, rd_console, rd_log, rd_raised,
                   ch_todo, ch_written, ch_rc, pipe, installvars, fnvars>>

\* the child exits, with whatever return code
ChildExit ==
    /\ ch_state \in {"running", "closed"}
    /\ ch_state' = "exited"
    /\ ch_rc' \in {0, 1}
    /\ UNCHANGED <<rd_pc, rd_data, rd_output, rd_console, rd_log, rd_raised,
                   ch_todo, ch_written, pipe, installvars, fnvars>>

\* line 237: sp.stdout.read(1) gives the next byte, or nothing once the
\* pipe is empty and its other end closed, and blocks otherwise
ReadByte ==
    /\ rd_pc = "read"
    /\ IF pipe # <<>>
       THEN /\ rd_data' = <<Head(pipe)>>
            /\ pipe' = Tail(pipe)
       ELSE /\ ch_state \in {"closed", "exited"}
            /\ rd_data' = <<>>
            /\ UNCHANGED pipe
    /\ rd_pc' = "check"
    /\ UNCHANGED <<rd_output, rd_console, rd_log, rd_raised, ch_state,
                   ch_todo, ch_written, ch_rc, installvars, fnvars>>

\* the loop ends as soon as the child has exited
LoopEnds_IgnoreData(data, st) == st = "exited"

\* line 238: "if not data and sp.poll() is not None"
LoopEnds(data, st) == data = <<>> /\ st = "exited"

\* lines 238-239
CheckExit ==
    /\ rd_pc = "check"
    /\ rd_pc' = IF LoopEnds(rd_data, ch_state) THEN "rc" ELSE "write"
    /\ UNCHANGED <<rd_data, rd_output, rd_console, rd_log, rd_raised,
                   ch_state, ch_todo, ch_written, ch_rc, pipe, installvars,
                   fnvars>>

\* line 206: Stage.write sends the data to stdout
WriteConsole ==
    /\ rd_pc = "write"
    /\ rd_console' = rd_console \o rd_data
    /\ rd_pc' = "log"
    /\ UNCHANGED <<rd_data, rd_output, rd_log, rd_raised, ch_state, ch_todo,
                   ch_written, ch_rc, pipe, installvars, fnvars>>

\* lines 207-209: and to the install log, when the stage has one
WriteLog ==
    /\ rd_pc = "log"
    /\ rd_log' = IF stage_log = "open" THEN rd_log \o rd_data ELSE rd_log
    /\ rd_pc' = "append"
    /\ UNCHANGED <<rd_data, rd_output, rd_console, rd_raised, ch_state,
                   ch_todo, ch_written, ch_rc, pipe, installvars, fnvars>>

\* line 241: output += data
AppendOutput ==
    /\ rd_pc = "append"
    /\ rd_output' = rd_output \o rd_data
    /\ rd_pc' = "read"
    /\ UNCHANGED <<rd_data, rd_console, rd_log, rd_raised, ch_state, ch_todo,
                   ch_written, ch_rc, pipe, installvars, fnvars>>

\* lines 243-248: the return code, and the error that carries the output
ReturnCode ==
    /\ rd_pc = "rc"
    /\ rd_raised' = IF CommandFailed(ch_rc)
                    THEN [type |-> "ProcessExecutionError",
                          stdout |-> rd_output, exit_code |-> ch_rc]
                    ELSE rd_raised
    /\ rd_pc' = "done"
    /\ UNCHANGED <<rd_data, rd_output, rd_console, rd_log, ch_state,
                   ch_todo, ch_written, ch_rc, pipe, installvars, fnvars>>

\* lines 227-235: the child is started and output is empty
InitStream ==
    /\ InstallIdle
    /\ stage_log \in {"open", "none"}
    /\ FnIdle
    /\ rd_pc = "read"
    /\ rd_data = <<>>
    /\ rd_output = <<>>
    /\ rd_console = <<>>
    /\ rd_log = <<>>
    /\ rd_raised = NoExc
    /\ ch_state = "running"
    /\ ch_todo \in SeqsUpTo(Bytes, MaxBytes)
    /\ ch_written = <<>>
    /\ ch_rc = 0
    /\ pipe = <<>>

NextStream ==
    \/ ChildWrite
    \/ ChildClose
    \/ ChildExit
    \/ ReadByte
    \/ CheckExit
    \/ WriteConsole
    \/ WriteLog
    \/ AppendOutput
    \/ ReturnCode

SpecStream == InitStream /\ [][NextStream]_vars

\* ------------------------------------------------------ reading the history
Has(name) == \E i \in DOMAIN events : events[i].ev = name

EvIdx(name) == {i \in DOMAIN events : events[i].ev = name}

IsPrefix(s, t) ==
    /\ Len(s) <= Len(t)
    /\ \A i \in 1..Len(s) : s[i] = t[i]

\* a stage command failed: it exited non-zero or could not be launched
IsCommandFailure(e) ==
    \/ e.ev = "exit" /\ e.n # 0
    \/ e.ev = "popen" /\ ~e.ok

IsPopen(e) == e.ev = "popen"

Popens == SelectSeq(events, IsPopen)

\* the commands of the configuration that are not falsy, as <<stage, name>>
Runnable ==
    {c \in (1..Len(cfg.stages)) \X CmdNames :
        /\ c[2] \in DOMAIN cfg.commands[cfg.stages[c[1]]]
        /\ cfg.commands[cfg.stages[c[1]]][c[2]] # "falsy"}

Terminated == pc = "done"

\* ---------------------------------------------------------------- claims
\* C1: once a command of a stage exits non-zero or cannot be launched, no
\* later command of that stage or of a later stage is launched.
C1_NoLaunchAfterFailure ==
    \A i \in DOMAIN events :
        IsCommandFailure(events[i]) =>
            \A j \in DOMAIN events : j > i => events[j].ev # "popen"

\* a first-stage command failed, a later stage had a runnable command, and
\* the attempt has ended
C1_Witness ==
    /\ Terminated
    /\ \E i \in DOMAIN events :
          /\ IsCommandFailure(events[i])
          /\ events[i].cmd[1] = 1
          /\ \E c \in Runnable : c[1] = 2
    /\ \E i \in DOMAIN events : events[i].ev = "exit" /\ events[i].n # 0

IsPhaseMarker(e) ==
    e.ev \in {"WorkingDir", "report_success", "report_failure",
              "cleanup_begin", "cleanup_end"}

PhaseMarkers ==
    LET m == SelectSeq(events, IsPhaseMarker)
    IN [i \in 1..Len(m) |-> m[i].ev]

\* C2: an attempt that enters RUNNING_STAGES goes RUNNING_STAGES, then
\* SUCCEEDED or FAILED, then CLEANUP, then DONE: cleanup starts exactly
\* once, after the outcome is known, on success and on every failure, and
\* the attempt is never over without cleanup having started.
C2_PhaseOrder ==
    /\ \/ IsPrefix(PhaseMarkers, <<"WorkingDir", "report_success",
                                   "cleanup_begin", "cleanup_end">>)
       \/ IsPrefix(PhaseMarkers, <<"WorkingDir", "report_failure",
                                   "cleanup_begin", "cleanup_end">>)
    /\ (Has("WorkingDir") /\ pc \in {"power_state", "exit", "done"})
          => Cardinality(EvIdx("cleanup_begin")) = 1
    /\ Has("report_failure") <=> (exc # NoExc /\ pc # "except")

\* the attempt is over after kexec preparation failed and cleanup ran
C2_Witness ==
    /\ Terminated
    /\ exc.origin = "kexec"
    /\ Has("cleanup_end")

\* C3: commands are launched one at a time, stages in the order of
\* cfg['stages'], commands of a stage in ascending lexicographic order of
\* their names; a falsy command is never launched and does not stop the
\* stage.
C3_LaunchOrder ==
    /\ \A i, j \in 1..Len(Popens) :
          i < j =>
             \/ Popens[i].cmd[1] < Popens[j].cmd[1]
             \/ /\ Popens[i].cmd[1] = Popens[j].cmd[1]
                /\ LexLess(Popens[i].cmd[2], Popens[j].cmd[2])
    /\ \A i \in 1..Len(Popens) : Popens[i].cmd \in Runnable
    /\ Cardinality(children) <= 1
    /\ \A i \in EvIdx("popen") :
          Cardinality({j \in EvIdx("popen") : j < i /\ events[j].ok})
             = Cardinality({j \in EvIdx("exit") : j < i})
    /\ Has("report_success") =>
          {Popens[i].cmd : i \in 1..Len(Popens)} = Runnable

\* success with the stages listed late-first, three launches, one falsy
\* command passed over and a name that is a prefix of the next
C3_Witness ==
    /\ Has("report_success")
    /\ cfg.stages = <<"late", "early">>
    /\ Len(Popens) = 3
    /\ \E k \in DOMAIN cfg.commands["late"] :
          cfg.commands["late"][k] = "falsy"
    /\ Popens[2].cmd[2] = <<1>>
    /\ Popens[3].cmd[2] = <<1, 2>>

IsTeardown(e) ==
    e.ev \in {"do_umount", "restart_iscsi_service", "zpool_export", "rmtree"}

Teardown == SelectSeq(events, IsTeardown)

TeardownSteps == [i \in 1..Len(Teardown) |-> <<Teardown[i].ev, Teardown[i].n>>]

ExpectedTeardown ==
    <<<<"do_umount", 0>>>>
    \o (IF cfg.iscsi THEN <<<<"restart_iscsi_service", 0>>>> ELSE <<>>)
    \o [k \in 1..cfg.zpools |-> <<"zpool_export", k>>]
    \o <<<<"rmtree", 0>>>>

\* C4: with a working environment and unmounting not disabled the teardown
\* is unmount, then the iscsi restart (only with iscsi disks), then the
\* export of every zpool, then the removal of the temporary root, each
\* step starting only after the one before returned; the root is removed
\* only if every earlier step returned without raising.
C4_TeardownOrder ==
    /\ IsPrefix(TeardownSteps, ExpectedTeardown)
    /\ \A i \in 1..(Len(Teardown) - 1) : Teardown[i].ok
    /\ Teardown # <<>> => workingd /\ cfg.unmount # "disabled"
    /\ (workingd /\ ~top_exists) =>
          /\ Len(Teardown) = Len(ExpectedTeardown)
          /\ \A i \in 1..Len(Teardown) : Teardown[i].ok

\* the root was removed after unmount, iscsi restart and two exports
C4_Witness ==
    /\ workingd
    /\ ~top_exists
    /\ cfg.iscsi
    /\ cfg.zpools >= 2
    /\ Len(Teardown) >= 5


\* C5: when a stage command fails, the exception that leaves cmd_install
\* is that command's error, whatever happens in failure reporting, archive
\* creation and cleanup.
C5_OriginalErrorLeaves ==
    \A i \in DOMAIN events :
        (Terminated /\ IsCommandFailure(events[i])) =>
            /\ result = "raised"
            /\ raised.type = "ProcessExecutionError"
            /\ raised.origin \in {"stage", "popen"}
            /\ raised.cmd = events[i].cmd

PowerConfigured == cfg.power_state # "none"

\* C6 as stated: with a power-state action configured, apply_power_state
\* is called with it after cleanup on the failure path as on the success
\* path.
C6_PowerStateOnEveryPath ==
    (Terminated /\ PowerConfigured /\ Has("cleanup_end"))
        => Has("apply_power_state")

\* C6 amended: apply_power_state is called with a configured action after
\* cleanup exactly on the success path; on the failure path it is never
\* called.
C6_PowerStateOnSuccessOnly ==
    /\ \A i \in EvIdx("apply_power_state") :
          /\ Has("report_success")
          /\ ~Has("report_failure")
          /\ \E j \in EvIdx("cleanup_end") : j < i
    /\ (Terminated /\ PowerConfigured /\ Has("cleanup_end")
          /\ Has("report_success"))
          => Has("apply_power_state")
    /\ Has("report_failure") => ~Has("apply_power_state")

\* a failed attempt with a power-state action configured ended after its
\* cleanup had completed
C6_Witness ==
    /\ Terminated
    /\ cfg.power_state = "valid"
    /\ Has("report_failure")
    /\ Has("cleanup_end")
    /\ exc.origin = "stage"

\* the power command was forked, or the process exited with status 0
IsTerminalAction(e) ==
    \/ e.ev = "apply_power_state" /\ e.ok
    \/ e.ev = "exit0"

\* C7: forking the power command and exiting 0 happen only after every
\* stage completed without error and cleanup completed without raising,
\* never while a stage child runs or before the teardown has finished;
\* the parent does not wait for the forked command.
C7_TerminalActionsLast ==
    /\ \A i \in DOMAIN events :
          IsTerminalAction(events[i]) =>
             /\ children = {}
             /\ exc = NoExc
             /\ ~\E j \in DOMAIN events : IsCommandFailure(events[j])
             /\ \A c \in Runnable :
                   \E j \in EvIdx("exit") :
                      j < i /\ events[j].cmd = c /\ events[j].n = 0
             /\ \E j \in EvIdx("report_success") : j < i
             /\ \E j \in EvIdx("cleanup_end") : j < i
             /\ \A j \in DOMAIN events :
                   (IsTeardown(events[j]) \/ events[j].ev = "copy_install_log")
                      => j < i /\ events[j].ok
             /\ (workingd /\ cfg.unmount # "disabled") =>
                   /\ Len(Teardown) = Len(ExpectedTeardown)
                   /\ ~top_exists
    /\ pc = "exit" => ENABLED Exit

\* exit 0 after a complete teardown while the forked power command still
\* runs
C7_Witness ==
    /\ result = "exit0"
    /\ power_child = "spawned"
    /\ cfg.zpools >= 1
    /\ cfg.unmount # "disabled"
    /\ ~top_exists

\* C8: an attempt that ends in success or in a stage command's non-zero
\* exit, with unmounting not disabled and no teardown step failing, leaves
\* no temporary root on disk.
C8_TempRootRemoved ==
    (/\ Terminated
     /\ cfg.unmount # "disabled"
     /\ \/ result = "exit0"
        \/ \E i \in EvIdx("exit") : events[i].n # 0
     /\ \A i \in 1..Len(Teardown) : Teardown[i].ok)
        => ~top_exists

\* C9: with install.unmount "disabled" the cleanup does no unmount, no
\* iscsi restart, no zpool export and no removal of the temporary root, so
\* target and working root stay as the stages left them; the install log,
\* when there is one, is still copied into the target.
C9_UnmountDisabledFrame ==
    cfg.unmount = "disabled" =>
        /\ Teardown = <<>>
        /\ workingd => top_exists
        /\ target_mounted <=> \E i \in EvIdx("exit") : events[i].n = 0
        /\ (Has("cleanup_begin") /\ cfg.save_install_log /\ workingd
               /\ install_log # NoLog)
              => Has("copy_install_log")
        /\ (Has("cleanup_end") /\ cfg.save_install_log /\ workingd
               /\ install_log # NoLog)
              => target_log = install_log

\* cleanup completed with unmounting disabled on a configuration with
\* iscsi disks and zpools, the target still mounted, the log copied
C9_Witness ==
    /\ cfg.unmount = "disabled"
    /\ Has("cleanup_end")
    /\ cfg.iscsi
    /\ cfg.zpools >= 1
    /\ target_mounted
    /\ top_exists
    /\ target_log = install_log

\* C10: the error archive is made exactly when the attempt fails and an
\* archive path is configured: at most once, never on success, after the
\* failure was reported and before the temporary root is removed.
C10_ErrorArchive ==
    /\ Cardinality(EvIdx("create_log_tarfile")) <= 1
    /\ \A i \in EvIdx("create_log_tarfile") :
          /\ cfg.error_tarfile
          /\ ~Has("report_success")
          /\ \E j \in EvIdx("report_failure") : j < i
          /\ \A j \in EvIdx("rmtree") \cup EvIdx("cleanup_begin") : i < j
    /\ (exc # NoExc /\ cfg.error_tarfile /\ pc \notin {"except", "tarfile"})
          => Has("create_log_tarfile")
    /\ Has("report_success") => exc = NoExc

\* the archive was made for a failed stage command and the temporary root
\* was removed afterwards
C10_Witness ==
    /\ Has("create_log_tarfile")
    /\ exc.origin = "stage"
    /\ workingd
    /\ ~top_exists


Malformed ==
    \/ cfg.kexec = "notdict"
    \/ cfg.power_state \in {"notdict", "badmode"}

\* C11: a kexec or power_state configuration of the wrong shape is
\* rejected before any stage command is launched and before success is
\* reported.
C11_MalformedRejectedEarly ==
    Malformed => (~Has("popen") /\ ~Has("report_success"))

\* C12: a configuration without sources, with none given on the command
\* line, ends in a usage error before anything was done: nothing exported
\* to the environment, the install log as it was, no reporter, no working
\* directory, no command, nothing reported.
C12_UsageErrorBeforeSideEffects ==
    (Cardinality(DOMAIN cfg.sources) = 0 /\ args_source = <<>>
        /\ pc # "bootstrap")
       => /\ pc = "done"
          /\ result = "raised"
          /\ raised.type = "BadUsage"
          /\ environ = EmptyDict
          /\ install_log = PreviousLog
          /\ ~reporter_loaded
          /\ ~top_exists
          /\ ~workingd
          /\ state_files = {}
          /\ children = {}
          /\ events = <<>>

\* the usage error was raised for a configuration that has proxy settings
\* to export and a log of an earlier installation to clear
C12_Witness ==
    /\ Cardinality(DOMAIN cfg.sources) = 0
    /\ args_source = <<>>
    /\ pc = "done"
    /\ raised.type = "BadUsage"
    /\ cfg.http_proxy = "x"
    /\ cfg.proxy.kind = "dict"
    /\ install_log = PreviousLog

\* C13 as stated: after a migration that did not fail the legacy key is
\* gone and proxy is a mapping; proxy/http_proxy keeps its own value Y when
\* the legacy value X differs from it, and holds X when it was X already or
\* was absent, whatever X is.
C13_MigrationAsStated ==
    (fn = "migrate_proxy_settings" /\ fn_out.done /\ fn_out.raised = "none")
       => LET X == fn_in.http_proxy
              before == fn_in.proxy.map
              after == fn_out.value.proxy.map
              had == "http_proxy" \in DOMAIN before
          IN /\ fn_out.value.http_proxy = Absent
             /\ fn_out.value.proxy.kind = "dict"
             /\ (X # Absent /\ had /\ before["http_proxy"] # X)
                   => /\ "http_proxy" \in DOMAIN after
                      /\ after["http_proxy"] = before["http_proxy"]
             /\ (X # Absent /\ (~had \/ before["http_proxy"] = X))
                   => /\ "http_proxy" \in DOMAIN after
                      /\ after["http_proxy"] = X

\* C13, amended: as stated for a legacy value X that is not empty; an empty
\* X is dropped without being copied, so that proxy/http_proxy stays as it
\* was (absent when it was absent); the other proxy keys are not touched
\* and a proxy that is no mapping is refused with ValueError.
C13_MigrationOfNonEmpty ==
    (fn = "migrate_proxy_settings" /\ fn_out.done)
       => LET X == fn_in.http_proxy
              before == fn_in.proxy.map
              after == fn_out.value.proxy.map
              had == "http_proxy" \in DOMAIN before
          IN IF fn_in.proxy.kind = "other"
             THEN fn_out.raised = "ValueError"
             ELSE /\ fn_out.raised = "none"
                  /\ fn_out.value.http_proxy = Absent
                  /\ fn_out.value.proxy.kind = "dict"
                  /\ \A k \in (DOMAIN before) \ {"http_proxy"} :
                        k \in DOMAIN after /\ after[k] = before[k]
                  /\ (DOMAIN after) \ {"http_proxy"} \subseteq DOMAIN before
                  /\ (X # Absent /\ had /\ before["http_proxy"] # X)
                        => /\ "http_proxy" \in DOMAIN after
                           /\ after["http_proxy"] = before["http_proxy"]
                  /\ (X \notin {Absent, ""}
                        /\ (~had \/ before["http_proxy"] = X))
                        => /\ "http_proxy" \in DOMAIN after
                           /\ after["http_proxy"] = X
                  /\ (X \in {Absent, ""} /\ ~had)
                        => "http_proxy" \notin DOMAIN after

\* a legacy value met a different proxy/http_proxy, which was kept
C13_Witness ==
    /\ fn = "migrate_proxy_settings"
    /\ fn_out.done
    /\ fn_out.raised = "none"
    /\ fn_in.http_proxy = "x"
    /\ "http_proxy" \in DOMAIN fn_in.proxy.map
    /\ fn_in.proxy.map["http_proxy"] = "y"
    /\ fn_out.value.proxy.map["http_proxy"] = "y"
    /\ fn_out.value.http_proxy = Absent

\* C14: load_power_state gives no command for None and TypeError for a
\* mapping without a valid mode; with a valid mode the delay token is "0"
\* for "now", the digits followed by "m" for a delay that is "+" and digits
\* and nothing else, and any other delay as it is ("5" when none is given).
C14_DelayToken ==
    (fn = "load_power_state" /\ fn_out.done)
       => CASE fn_in.kind = "None" ->
                 fn_out.raised = "none" /\ fn_out.value = <<>>
            [] fn_in.kind = "other" -> fn_out.raised = "TypeError"
            [] OTHER ->
                 IF fn_in.mode \notin {"halt", "poweroff", "reboot"}
                 THEN fn_out.raised = "TypeError"
                 ELSE LET d == fn_in.delay
                          plus_digits ==
                             /\ Len(d) >= 2
                             /\ d[1] = "+"
                             /\ \A i \in 2..Len(d) : d[i] \in {"0", "5"}
                      IN /\ fn_out.raised = "none"
                         /\ fn_out.value[5] =
                               IF d = <<Absent>> THEN <<"5">>
                               ELSE IF d = <<"n", "o", "w">> THEN <<"0">>
                               ELSE IF plus_digits
                               THEN Append(Tail(d), "m")
                               ELSE d

\* C15: with at least two menuentry blocks and set default="d" lines, the
\* last of which names a block d that exists, the kernel and the initrd
\* are those of the linux and initrd lines between the marker of block d
\* and the next marker, or the end of the file.
C15_DefaultBlockUsed ==
    (fn = "apply_kexec" /\ fn_out.done)
       => LET lines == fn_in
              markers == {i \in DOMAIN lines : lines[i].kind = "menuentry"}
              defaults == {i \in DOMAIN lines : lines[i].kind = "default"}
          IN (/\ Cardinality(markers) >= 2
              /\ defaults # {}
              /\ \A i \in defaults : ~lines[i].tail
              /\ \A i \in defaults : lines[i].n < Cardinality(markers))
                => LET last == CHOOSE i \in defaults :
                                  \A j \in defaults : j <= i
                       d == lines[last].n
                       m == CHOOSE i \in markers :
                               Cardinality({j \in markers : j < i}) = d
                       later == {j \in markers : j > m}
                       until == IF later = {} THEN Len(lines)
                                ELSE (CHOOSE j \in later :
                                         \A k \in later : j <= k) - 1
                       InBlock(kind) ==
                          {i \in (m + 1)..until : lines[i].kind = kind}
                       FileOf(kind) ==
                          IF InBlock(kind) = {} THEN 0
                          ELSE lines[CHOOSE i \in InBlock(kind) :
                                  \A j \in InBlock(kind) : j <= i].n
                   IN /\ fn_out.raised = "none"
                      /\ fn_out.value.kernel = FileOf("linux")
                      /\ fn_out.value.loaded <=> FileOf("linux") # 0
                      /\ fn_out.value.loaded
                            => fn_out.value.initrd = FileOf("initrd")

\* C16: no failure of an operation on the install log changes the course
\* of the install: none leaves cmd_install as an exception, none aborts a
\* stage, and when one happened in the cleanup the steps after it still
\* run.
C16_LogFailuresHarmless ==
    LET LogOps == {"clear_install_log", "Stage.write", "copy_install_log"}
    IN /\ raised.origin \notin LogOps
       /\ exc.origin \notin LogOps
       /\ (\E i \in EvIdx("copy_install_log") : ~events[i].ok)
             => pc # "done" \/ Has("cleanup_end")

\* C17: once the working directory is made and until the first command is
\* launched, the fstab, network_config, network_state and interfaces files
\* and the config file exist, the config file holding the configuration,
\* and so do the scratch and the target directory, the target with nothing
\* mounted in it.
C17_StateFilesExist ==
    (workingd /\ ~Has("popen") /\ pc \in {"dd_images", "stage", "cmd"})
       => /\ {"fstab", "network_config", "network_state", "interfaces",
              "config"} \subseteq state_files
          /\ {"scratch", "target"} \subseteq state_files
          /\ config_snapshot = cfg
          /\ ~target_mounted

\* C18 as stated: once the working directory holds its snapshot of the
\* configuration, the configuration is equal to that snapshot for good.
C18_ConfigNeverModified ==
    config_snapshot # NoSnapshot => cfg = config_snapshot

\* C18, amended: the configuration is equal to the snapshot until kexec has
\* loaded a kernel; from then on it is the snapshot with power_state
\* replaced by the reboot that kexec asks for, and nothing else changed.
C18_ConfigModifiedOnlyByKexec ==
    config_snapshot # NoSnapshot
       => IF \E i \in EvIdx("apply_kexec") : events[i].ok
          THEN cfg = [config_snapshot EXCEPT !.power_state = "kexec_reboot"]
          ELSE cfg = config_snapshot

\* an install that loaded a kernel went on to the power-state step with a
\* configuration that differs from the snapshot
C18_Witness ==
    /\ config_snapshot # NoSnapshot
    /\ \E i \in EvIdx("apply_kexec") : events[i].ok
    /\ cfg # config_snapshot
    /\ Has("cleanup_end")
    /\ Has("apply_power_state")

\* an operation on the install log that failed
IsLogFailure(e) ==
    /\ ~e.ok
    /\ e.ev \in {"ensure_dir", "clear_install_log", "writeline",
                 "open_install_log", "Stage.write", "copy_install_log"}

IsExit(e) == e.ev = "exit"

\* the output lines of the commands that were read to their end, in order
RECURSIVE OutputsOf(_)
OutputsOf(evs) ==
    IF evs = <<>> THEN <<>>
    ELSE <<OutputOf(Head(evs).cmd)>> \o OutputsOf(Tail(evs))

\* C19: when an attempt that wrote the start banner has ended and no
\* operation on the install log failed, the log is the start banner, the
\* output of the commands in the order they ran, and one outcome line: the
\* success banner when success was reported, the failure line otherwise;
\* success is reported only with every stage gone through, every command
\* exited 0 and no error from the kexec preparation.
C19_InstallLogContent ==
    /\ (Terminated /\ Has("start_banner")
          /\ \A i \in DOMAIN events : ~IsLogFailure(events[i]))
          => install_log =
                <<LogLine("START")>>
                   \o OutputsOf(SelectSeq(events, IsExit))
                   \o <<LogLine(IF Has("report_success") THEN "PASS"
                                ELSE "FAIL")>>
    /\ Has("report_success")
          => /\ ~Has("report_failure")
             /\ exc = NoExc
             /\ stage_i > Len(cfg.stages)
             /\ \A c \in Runnable :
                   \E i \in EvIdx("exit") :
                      events[i].cmd = c /\ events[i].n = 0
             /\ \A i \in DOMAIN events : ~IsCommandFailure(events[i])
             /\ cfg.kexec = "on" => Has("apply_kexec")
    /\ Has("report_failure") => exc # NoExc

\* a failed attempt ended with the banner, the output of two commands and
\* the failure line in its log
C19_Witness ==
    /\ Terminated
    /\ Has("start_banner")
    /\ \A i \in DOMAIN events : ~IsLogFailure(events[i])
    /\ Len(install_log) = 4
    /\ install_log[2] # install_log[3]
    /\ install_log[4] = LogLine("FAIL")
    /\ Has("cleanup_end")

\* C20: each byte the child wrote is, in order and once, in the pipe, in
\* the runner's hands or in the captured output; whenever the runner goes
\* to read again all it has captured is on the console and in the open
\* install log; the loop is left only with the child exited and the
\* captured output equal to all the child wrote; the error for a non-zero
\* return code carries that output and the code.
C20_OutputForwarded ==
    /\ ch_written = rd_output \o InHand \o pipe
    /\ rd_pc \in {"read", "rc", "done"}
          => /\ rd_console = rd_output
             /\ stage_log = "open" => rd_log = rd_output
    /\ rd_pc \in {"rc", "done"}
          => /\ ch_state = "exited"
             /\ rd_output = ch_written
    /\ rd_pc = "done"
          => IF ch_rc # 0
             THEN /\ rd_raised # NoExc
                  /\ rd_raised.stdout = ch_written
                  /\ rd_raised.exit_code = ch_rc
             ELSE rd_raised = NoExc

\* the child exited non-zero with bytes still in the pipe and the loop
\* ended with an error that carries all three bytes
C20_Witness ==
    /\ rd_pc = "done"
    /\ ch_rc = 1
    /\ Len(ch_written) = 3
    /\ rd_raised # NoExc
    /\ rd_raised.stdout = ch_written
    /\ rd_log = ch_written

\* C21: with n configured sources and k sources from the command line the
\* mapping holds n + k entries afterwards: every configured entry is still
\* there with its value, and every command-line source has an entry of its
\* own among the new keys.
C21_SourcesAllKept ==
    (fn = "append_sources" /\ fn_out.done)
       => LET before == fn_in.sources
              cli == fn_in.cli
              after == fn_out.value
          IN /\ Cardinality(DOMAIN after)
                   = Cardinality(DOMAIN before) + Len(cli)
             /\ \A k \in DOMAIN before :
                   k \in DOMAIN after /\ after[k] = before[k]
             /\ \A i \in 1..Len(cli) :
                   \E k \in (DOMAIN after) \ (DOMAIN before) :
                      after[k] = cli[i]

\* the outcome line of an attempt
IsOutcomeLine(l) == l \in {LogLine("PASS"), LogLine("FAIL")}

IsOutcome(e) == e.ev \in {"report_success", "report_failure"}

\* C22 as stated: once the cleanup of an attempt with a working directory
\* and a log-target path is past its first step, the target holds a copy of
\* the install log with the outcome line in it, made after the outcome and
\* before any unmount.
C22_LogAlwaysCopied ==
    (workingd /\ cfg.save_install_log /\ Has("cleanup_begin"))
       => /\ target_log # NoLog
          /\ \E k \in DOMAIN target_log : IsOutcomeLine(target_log[k])
          /\ \A i \in EvIdx("copy_install_log") :
                /\ \E j \in 1..(i - 1) : IsOutcome(events[j])
                /\ \A j \in EvIdx("do_umount") : i < j

\* C22, amended: with a working directory and a log-target path the copy
\* is attempted whenever the install log exists, and only then; it comes
\* after the outcome was reported and before any unmount, and nothing is
\* unmounted after a copy that failed; a copy that succeeded is the whole
\* install log, with the outcome line last unless writing that line failed.
C22_LogCopiedAfterOutcome ==
    /\ (workingd /\ cfg.save_install_log /\ Has("cleanup_begin")
          /\ install_log # NoLog)
          => Has("copy_install_log")
    /\ Cardinality(EvIdx("copy_install_log")) <= 1
    /\ \A i \in EvIdx("copy_install_log") :
          /\ workingd
          /\ cfg.save_install_log
          /\ \E j \in 1..(i - 1) : IsOutcome(events[j])
          /\ \A j \in EvIdx("do_umount") : i < j
          /\ ~events[i].ok => ~Has("do_umount") /\ target_log = NoLog
          /\ events[i].ok
                => /\ target_log = install_log
                   /\ (\A j \in EvIdx("writeline") :
                          j + 1 \in DOMAIN events
                             => ~IsOutcome(events[j + 1]))
                         => /\ target_log # <<>>
                            /\ IsOutcomeLine(target_log[Len(target_log)])
    /\ ~Has("copy_install_log") => target_log = NoLog

\* the log of a failed attempt, with the output of a command and the
\* failure line, was copied before the target was unmounted
C22_Witness ==
    /\ workingd
    /\ cfg.save_install_log
    /\ Has("do_umount")
    /\ \E i \in EvIdx("copy_install_log") : events[i].ok
    /\ Len(target_log) >= 3
    /\ target_log[Len(target_log)] = LogLine("FAIL")
    /\ target_log = install_log

\* C23: when making the working directory failed, no command is ever
\* launched, the failure is reported before the cleanup, and at the end of
\* the attempt the temporary root that was made for it is gone.
C23_FailedWorkingDirLeavesNothing ==
    (\E i \in EvIdx("WorkingDir") : ~events[i].ok)
       => /\ ~Has("popen")
          /\ children = {}
          /\ ~workingd
          /\ pc \notin {"workingdir", "except"} => Has("report_failure")
          /\ Terminated => ~top_exists /\ state_files \subseteq {"target"}

====
